---- MODULE Spec2Model ----
(***************************************************************************)
(* Dashboard persistence (sqlstore: SaveDashboard, setHasAcl,              *)
(* DeleteDashboard) modelled as a state machine over the relational        *)
(* tables it touches.                                                      *)
(*                                                                         *)
(* A transaction is a log of write statements: a statement executed on    *)
(* the session appends to the log, commit applies the log to the tables,   *)
(* rollback drops it.  Every read the handlers make happens before their   *)
(* first write, so reads are evaluated on the committed tables.            *)
(*                                                                         *)
(* The module also holds the dashboard search (findDashboards) over the    *)
(* tables its access-control filter reads, and the alert condition          *)
(* evaluators (conditions: NewAlertEvaluator, Eval), each under a           *)
(* specification of its own.                                               *)
(***************************************************************************)
EXTENDS Integers, Sequences, FiniteSets, Bags, TLC

\* ---------------------------------------------------------------- bounds
MaxId == 2          \* ids the auto-increment column hands out: 1..MaxId
MaxVersion == 2     \* a save starts only while every stored version is below it
MaxInserts == 3     \* cap on the dashboard-insert metrics counter

OrgIds == {1, 2}
Slugs == {"x", "y"}
PluginIds == {"", "X"}
TagLists == {<< >>, <<"a", "b">>, <<"b", "c">>}
Procs == {1, 2}
Users == {1, 2}

\* ------------------------------------------------------------ data model
NoRow ==
  [id |-> 0, orgId |-> 0, slug |-> "", version |-> 0, folderId |-> 0,
   hasAcl |-> FALSE, pluginId |-> "", dataVersion |-> 0]

NoErr == [kind |-> "nil", pluginId |-> ""]
DbError == [kind |-> "DbError", pluginId |-> ""]
ErrDashboardNotFound == [kind |-> "ErrDashboardNotFound", pluginId |-> ""]
ErrDashboardVersionMismatch == [kind |-> "ErrDashboardVersionMismatch", pluginId |-> ""]
ErrDashboardWithSameNameExists == [kind |-> "ErrDashboardWithSameNameExists", pluginId |-> ""]
UpdatePluginDashboardError(p) == [kind |-> "UpdatePluginDashboardError", pluginId |-> p]

\* SaveDashboardCommand: the body's id, version, slug and tags, and the
\* command's OrgId, Overwrite, PluginId and FolderId.
AllSaveCmds ==
  [id : 0..MaxId, version : 0..MaxVersion, slug : Slugs, tags : TagLists,
   orgId : OrgIds, overwrite : BOOLEAN, pluginId : PluginIds, folderId : 0..MaxId]

\* The callers of one run vary the id, declared version, slug and overwrite
\* flag of their commands and one further field, named by the family; the
\* other fields keep their zero value (org 1, no plugin, root folder, no
\* tags, and no declared version in the body of a new dashboard).  The
\* concurrent callers all save under one slug; the runs that star and
\* delete dashboards save them with or without the tags a and b, never
\* with overwrite.
Families == {"version", "org", "plugin", "folder", "tags"}
SaveCmds(f) ==
  {c \in AllSaveCmds :
     /\ (f # "version" /\ c.id = 0) => c.version = 0
     /\ f # "org" => c.orgId = 1
     /\ f # "plugin" => c.pluginId = ""
     /\ f # "folder" => c.folderId = 0
     /\ f \notin {"tags", "delete"} => c.tags = << >>
     /\ f = "concurrent" => c.slug = "x"
     /\ f = "delete" => ~c.overwrite /\ c.tags # <<"b", "c">>}

\* cmd.GetDashboardModel(): the candidate row built from the command.
GetDashboardModel(cmd) ==
  [id |-> cmd.id, orgId |-> cmd.orgId, slug |-> cmd.slug, version |-> cmd.version,
   folderId |-> cmd.folderId, hasAcl |-> FALSE, pluginId |-> cmd.pluginId,
   dataVersion |-> cmd.version]

EmptyDb ==
  [dashboard |-> {}, dashboard_version |-> EmptyBag, dashboard_tag |-> EmptyBag,
   dashboard_acl |-> {}, star |-> {}, playlist_item |-> {}]

\* ------------------------------------------------------ write statements
\* (mutant) the update leaves the stored body alone
XormUpdateNoData(r, dash) ==
  [r EXCEPT !.orgId = dash.orgId, !.slug = dash.slug, !.version = dash.version,
            !.folderId = dash.folderId, !.hasAcl = dash.hasAcl,
            !.pluginId = IF dash.pluginId # "" THEN dash.pluginId ELSE @]

\* Update(dash) by primary key: xorm sets the non-zero fields of the bean
\* plus the MustCols columns folder_id and has_acl; an empty plugin id is a
\* zero value and leaves the stored column alone.
XormUpdate(r, dash) ==
  [r EXCEPT !.orgId = dash.orgId, !.slug = dash.slug, !.version = dash.version,
            !.folderId = dash.folderId, !.hasAcl = dash.hasAcl,
            !.pluginId = IF dash.pluginId # "" THEN dash.pluginId ELSE @,
            !.dataVersion = dash.dataVersion]

\* DELETE FROM <table> WHERE dashboard_id = id, on the rows B of the table
DeleteByDashboardId(B, id) ==
  [e \in {x \in DOMAIN B : x.dashboardId # id} |-> B[e]]

\* The effect of one logged write statement on the tables.
ApplyOp(db, o) ==
  CASE o.op = "insDash" -> [db EXCEPT !.dashboard = @ \cup {o.row}]
    [] o.op = "updDash" ->
         [db EXCEPT !.dashboard =
            {IF r.id = o.id THEN XormUpdate(r, o.row) ELSE r : r \in @}]
    [] o.op = "insVer" ->
         [db EXCEPT !.dashboard_version = @ (+) SetToBag({o.row})]
    [] o.op = "delTags" ->
         [db EXCEPT !.dashboard_tag = DeleteByDashboardId(@, o.id)]
    [] o.op = "insTag" ->
         [db EXCEPT !.dashboard_tag =
            @ (+) SetToBag({[dashboardId |-> o.id, term |-> o.term]})]
    [] o.op = "delDash" ->
         [db EXCEPT !.dashboard = {r \in @ : r.id # o.id}]
    [] o.op = "delVersions" ->
         [db EXCEPT !.dashboard_version = DeleteByDashboardId(@, o.id)]
    [] o.op = "delChildren" ->
         [db EXCEPT !.dashboard = {r \in @ : r.folderId # o.id}]
    [] o.op = "delStar" ->
         [db EXCEPT !.star = {x \in @ : x.dashboardId # o.id}]
    [] o.op = "delPlaylist" ->
         [db EXCEPT !.playlist_item =
            {x \in @ : ~(x.type = "dashboard_by_id" /\ x.value = o.id)}]
    [] OTHER -> db

RECURSIVE ApplyLog(_, _)
ApplyLog(db, log) ==
  IF log = << >> THEN db ELSE ApplyLog(ApplyOp(db, Head(log)), Tail(log))

\* inTransaction(callback): commit the session's writes when the callback
\* returns nil, roll them back when it returns an error.
InTransaction(db, log, err) ==
  IF err = NoErr THEN ApplyLog(db, log) ELSE db

\* --------------------------------------------------- the save transaction
\* The callback's local state.  n counts the statements executed so far and
\* failAt names the statement (1, 2, ...) the store fails, 0 for none.
NewSession(cmd, failAt) ==
  [pc |-> "lookup", cmd |-> cmd, dash |-> GetDashboardModel(cmd),
   existing |-> NoRow, sameTitle |-> NoRow, parentVersion |-> 0,
   affectedRows |-> 0, tagIdx |-> 1, log |-> << >>, n |-> 0,
   failAt |-> failAt, err |-> NoErr, inc |-> 0, inserted |-> 0]

Tick(s) == [s EXCEPT !.n = @ + 1]
Failing(s) == s.n + 1 = s.failAt
Return(s, e) == [s EXCEPT !.err = e, !.pc = "return"]

\* (mutant) only a declared version newer than the stored one conflicts
VersionMismatchNewerOnly(dash, existing) == dash.version > existing.version

\* line 43: "check for is someone else has written in between"
VersionMismatch(dash, existing) == dash.version # existing.version

\* (mutant) the guard forgets the overwrite flag
PluginProtectedAlways(existing, overwrite) == existing.pluginId # ""

\* line 52: "do not allow plugin dashboard updates without overwrite flag"
PluginProtected(existing, overwrite) ==
  existing.pluginId # "" /\ overwrite = FALSE

\* lines 33-55: fetch the existing row, version check, plugin guard
LookupExisting(s, db) ==
  LET dash == s.dash
      found == {r \in db.dashboard : r.id = dash.id /\ r.orgId = dash.orgId}
  IN  IF ~(dash.id > 0) THEN [s EXCEPT !.pc = "sameTitle"]
      ELSE IF Failing(s) THEN Return(Tick(s), DbError)
      ELSE IF found = {} THEN Return(Tick(s), ErrDashboardNotFound)
      ELSE
        LET existing == CHOOSE r \in found : TRUE
            mismatch == VersionMismatch(dash, existing)
            s1 == [Tick(s) EXCEPT !.existing = existing]
        IN  IF mismatch /\ ~s.cmd.overwrite
              THEN Return(s1, ErrDashboardVersionMismatch)
            ELSE IF PluginProtected(existing, s.cmd.overwrite)
              THEN Return(s1, UpdatePluginDashboardError(existing.pluginId))
            ELSE [s1 EXCEPT
                    !.dash.version = IF mismatch THEN existing.version ELSE @,
                    !.pc = "sameTitle"]

\* The rows the slug lookup of line 57 can return.
SameTitleRows(db, dash) ==
  {r \in db.dashboard : r.orgId = dash.orgId /\ r.slug = dash.slug}

\* (mutant) the candidate takes the version of the slug's row, not its id
AdoptVersionOnly(dash, sameTitle) ==
  [dash EXCEPT !.version = sameTitle.version]

\* (mutant) the candidate takes the id of the slug's row and keeps its own
\* declared version
AdoptIdOnly(dash, sameTitle) ==
  [dash EXCEPT !.id = sameTitle.id]

\* lines 66-67: the candidate takes over the row that owns the slug
AdoptSameTitle(dash, sameTitle) ==
  [dash EXCEPT !.id = sameTitle.id, !.version = sameTitle.version]

\* (mutant) the slug lookup is made and its result ignored
LookupSameTitleBlind(s, sameTitle) ==
  IF Failing(s) THEN Return(Tick(s), DbError)
  ELSE [Tick(s) EXCEPT !.sameTitle = sameTitle, !.pc = "parentAcl"]

\* lines 57-72: slug collision; sameTitle is the row Get returned (NoRow
\* when there is none)
LookupSameTitle(s, sameTitle) ==
  IF Failing(s) THEN Return(Tick(s), DbError)
  ELSE IF sameTitle # NoRow /\ s.dash.id # sameTitle.id
    THEN IF s.cmd.overwrite
           THEN [Tick(s) EXCEPT !.sameTitle = sameTitle,
                                !.dash = AdoptSameTitle(@, sameTitle),
                                !.pc = "parentAcl"]
           ELSE Return(Tick(s), ErrDashboardWithSameNameExists)
    ELSE [Tick(s) EXCEPT !.sameTitle = sameTitle, !.pc = "parentAcl"]

\* The rows the lookup of line 144 can return: Where("folder_id=?").
ParentRows(db, dash) ==
  {r \in db.dashboard : r.folderId = dash.folderId}

\* setHasAcl, lines 141-149: "check if parent has acl"
SetHasAclParent(s, parent) ==
  IF ~(s.dash.folderId > 0) THEN [s EXCEPT !.pc = "ownAcl"]
  ELSE IF Failing(s) THEN Return(Tick(s), DbError)
  ELSE [Tick(s) EXCEPT
          !.dash.hasAcl = IF parent # NoRow /\ parent.hasAcl THEN TRUE ELSE @,
          !.pc = "ownAcl"]

\* setHasAcl, lines 151-160: "check if dash has its own acl"
SetHasAclOwn(s, db) ==
  IF ~(s.dash.id > 0) THEN [s EXCEPT !.pc = "write"]
  ELSE IF Failing(s) THEN Return(Tick(s), DbError)
  ELSE [Tick(s) EXCEPT
          !.dash.hasAcl = IF s.dash.id \in db.dashboard_acl THEN TRUE ELSE @,
          !.pc = "write"]

\* (mutant) the update forgets to raise the version
NextVersionSame(v) == v

\* line 88: dash.Version++
NextVersion(v) == v + 1

\* lines 79-99: insert the new row, or update the existing one by id.
\* nid is the id the auto-increment column hands out next.
WriteDashboard(s, db, nid) ==
  LET parentVersion == s.dash.version
      s0 == [s EXCEPT !.parentVersion = parentVersion]
  IN  IF s.dash.id = 0
        THEN
          LET s1 == [s0 EXCEPT !.dash.version = 1, !.dash.dataVersion = 1,
                               !.inc = @ + 1]
          IN  IF Failing(s1) THEN Return(Tick(s1), DbError)
              ELSE
                LET row == [s1.dash EXCEPT !.id = nid]
                IN  [Tick(s1) EXCEPT
                       !.dash = row, !.affectedRows = 1, !.inserted = 1,
                       !.log = Append(@, [op |-> "insDash", row |-> row]),
                       !.pc = "version"]
        ELSE
          LET v == NextVersion(s.dash.version)
              s1 == [s0 EXCEPT !.dash.version = v, !.dash.dataVersion = v]
              affectedRows ==
                IF \E r \in db.dashboard : r.id = s1.dash.id THEN 1 ELSE 0
          IN  IF Failing(s1) THEN Return(Tick(s1), DbError)
              ELSE
                LET s2 == [Tick(s1) EXCEPT
                             !.affectedRows = affectedRows,
                             !.log = Append(@, [op |-> "updDash",
                                                id |-> s1.dash.id,
                                                row |-> s1.dash])]
                IN  IF affectedRows = 0 THEN Return(s2, ErrDashboardNotFound)
                    ELSE [s2 EXCEPT !.pc = "version"]

\* (mutant) the history row is numbered with the version before the write
InsertVersionStale(s) ==
  LET dashVersion ==
        [dashboardId |-> s.dash.id, parentVersion |-> s.parentVersion,
         version |-> s.parentVersion, dataVersion |-> s.parentVersion]
  IN  IF Failing(s) THEN Return(Tick(s), DbError)
      ELSE [Tick(s) EXCEPT
              !.affectedRows = 1,
              !.log = Append(@, [op |-> "insVer", row |-> dashVersion]),
              !.pc = "delTags"]

\* lines 101-117: append the version-history row
InsertVersion(s) ==
  LET dashVersion ==
        [dashboardId |-> s.dash.id, parentVersion |-> s.parentVersion,
         version |-> s.dash.version, dataVersion |-> s.dash.dataVersion]
  IN  IF Failing(s) THEN Return(Tick(s), DbError)
      ELSE [Tick(s) EXCEPT
              !.affectedRows = 1,
              !.log = Append(@, [op |-> "insVer", row |-> dashVersion]),
              !.pc = "delTags"]

\* (mutant) the old tag rows are kept
DeleteTagsSkipped(s) == [s EXCEPT !.pc = "insTag"]

\* (mutant) the tag rows of the submitted id are deleted, not those of the
\* id the save was redirected to
DeleteTagsOfSubmitted(s) ==
  IF Failing(s) THEN Return(Tick(s), DbError)
  ELSE [Tick(s) EXCEPT
          !.log = Append(@, [op |-> "delTags", id |-> s.cmd.id]),
          !.pc = "insTag"]

\* lines 119-123: delete the dashboard's tag rows
DeleteTags(s) ==
  IF Failing(s) THEN Return(Tick(s), DbError)
  ELSE [Tick(s) EXCEPT
          !.log = Append(@, [op |-> "delTags", id |-> s.dash.id]),
          !.pc = "insTag"]

\* lines 125-136: one insert per tag of the body, then cmd.Result = dash
InsertTag(s) ==
  LET tags == s.cmd.tags
  IN  IF s.tagIdx > Len(tags) THEN [s EXCEPT !.pc = "return"]
      ELSE IF Failing(s) THEN Return(Tick(s), DbError)
      ELSE [Tick(s) EXCEPT
              !.log = Append(@, [op |-> "insTag", id |-> s.dash.id,
                                 term |-> tags[s.tagIdx]]),
              !.tagIdx = @ + 1]

\* One step of the callback of SaveDashboard (lines 27-137).
SaveStep(s, db, nid, sameTitle, parent) ==
  CASE s.pc = "lookup" -> LookupExisting(s, db)
    [] s.pc = "sameTitle" -> LookupSameTitle(s, sameTitle)
    [] s.pc = "parentAcl" -> SetHasAclParent(s, parent)
    [] s.pc = "ownAcl" -> SetHasAclOwn(s, db)
    [] s.pc = "write" -> WriteDashboard(s, db, nid)
    [] s.pc = "version" -> InsertVersion(s)
    [] s.pc = "delTags" -> DeleteTags(s)
    [] s.pc = "insTag" -> InsertTag(s)
    [] OTHER -> s

\* The callback run from its first statement to its return.
RECURSIVE RunSave(_, _, _, _, _)
RunSave(s, db, nid, sameTitle, parent) ==
  IF s.pc = "return" THEN s
  ELSE RunSave(SaveStep(s, db, nid, sameTitle, parent), db, nid, sameTitle, parent)

\* What Get(&row) can leave in row: any matching row, none when there is no
\* match.
PickOf(rows) == IF rows = {} THEN {NoRow} ELSE rows

\* The rows the two lookups of a save can return; setHasAcl makes its
\* lookup only for a candidate in a folder (line 142).
SameTitlePicks(d, dash) == PickOf(SameTitleRows(d, dash))
ParentPicks(d, dash) ==
  IF dash.folderId > 0 THEN PickOf(ParentRows(d, dash)) ELSE {NoRow}

\* ------------------------------------------------- the delete transaction
DeleteCmds(f) == [id : 1..MaxId, orgId : IF f = "org" THEN OrgIds ELSE {1}]

\* lines 374-381: the delete statements, in the order they are executed
DeleteSqls ==
  << "delTags", "delStar", "delDash", "delPlaylist", "delVersions", "delChildren" >>

\* (mutant) a failure of the alert-definition hook is returned to the caller
RunDeleteHookAborts(cmd, db, failAt) ==
  LET found == {r \in db.dashboard : r.id = cmd.id /\ r.orgId = cmd.orgId}
  IN  IF failAt = 1 THEN [err |-> DbError, log |-> << >>]
      ELSE IF found = {} THEN [err |-> ErrDashboardNotFound, log |-> << >>]
      ELSE
        LET id == (CHOOSE r \in found : TRUE).id
            deletes == [i \in 1..Len(DeleteSqls) |-> [op |-> DeleteSqls[i], id |-> id]]
        IN  IF failAt \in 2..(Len(deletes) + 1)
              THEN [err |-> DbError, log |-> SubSeq(deletes, 1, failAt - 2)]
            ELSE IF failAt = Len(deletes) + 2
              THEN [err |-> DbError, log |-> deletes]
              ELSE [err |-> NoErr, log |-> deletes]

\* DeleteDashboard, lines 364-396: statement 1 fetches the row, statements
\* 2..7 are the six deletes, statement 8 is the alert-definition hook, whose
\* error is swallowed.
RunDelete(cmd, db, failAt) ==
  LET found == {r \in db.dashboard : r.id = cmd.id /\ r.orgId = cmd.orgId}
  IN  IF failAt = 1 THEN [err |-> DbError, log |-> << >>]
      ELSE IF found = {} THEN [err |-> ErrDashboardNotFound, log |-> << >>]
      ELSE
        LET id == (CHOOSE r \in found : TRUE).id
            deletes == [i \in 1..Len(DeleteSqls) |-> [op |-> DeleteSqls[i], id |-> id]]
        IN  IF failAt \in 2..(Len(deletes) + 1)
              THEN [err |-> DbError, log |-> SubSeq(deletes, 1, failAt - 2)]
              ELSE [err |-> NoErr, log |-> deletes]

\* ------------------------------------------------------------------ state
VARIABLES
  db,       \* the committed tables
  nextId,   \* the next value of dashboard.id's auto-increment
  metric,   \* metrics.M_Models_Dashboard_Insert
  call,     \* the call whose result the caller has not taken yet: command,
            \* returned error, cmd.Result, and the tables and the counter
            \* before the call
  sess,     \* the save transactions in flight, one per concurrent caller
  family    \* the family of commands the callers of this run issue

vars == <<db, nextId, metric, call, sess, family>>

DeleteStmts == Len(DeleteSqls) + 2

\* A caller's slot: its transaction s and the tables as they were committed
\* when its call began.
Idle ==
  [s |-> [NewSession(CHOOSE c \in AllSaveCmds : TRUE, 0) EXCEPT !.pc = "idle"],
   pre |-> EmptyDb]

Init ==
  /\ db = EmptyDb
  /\ nextId = 1
  /\ metric = 0
  /\ call = [op |-> "none"]
  /\ sess = [p \in Procs |-> Idle]
  /\ family \in Families

\* The bounds of the model: the rows a save may update are below MaxVersion
\* and an insert has an id and a counter value left.
SaveAllowed(cmd, pending) ==
  /\ \A r \in db.dashboard :
       (r.id = cmd.id \/ (r.orgId = cmd.orgId /\ r.slug = cmd.slug))
         => r.version < MaxVersion
  /\ cmd.id = 0 => (nextId + pending <= MaxId /\ metric + pending < MaxInserts)

\* ------------------------------------------------- calls made one at a time
\* The statements the store may fail in this run: runs of the "tags" family
\* inject a failure at any statement the call executes, the other families
\* run on a store that does not fail.
FailPoints(n) == IF family = "tags" THEN 0..n ELSE {0}

\* (mutant) the statements run outside a transaction: nothing is rolled back
SaveOutcomeNoRollback(s) == ApplyLog(db, s.log)

\* SaveDashboard, lines 26-138, as one call: the callback runs inside
\* inTransaction and its outcome is committed or rolled back.
SaveOutcome(s) == InTransaction(db, s.log, s.err)

SaveDashboard ==
  \E cmd \in SaveCmds(family) :
    /\ call.op = "none"
    /\ SaveAllowed(cmd, 0)
    /\ \E sameTitle \in SameTitlePicks(db, GetDashboardModel(cmd)),
          parent \in ParentPicks(db, GetDashboardModel(cmd)) :
         \E failAt \in FailPoints(RunSave(NewSession(cmd, 0), db, nextId,
                                          sameTitle, parent).n) :
           LET s == RunSave(NewSession(cmd, failAt), db, nextId, sameTitle, parent)
           IN  /\ db' = SaveOutcome(s)
               /\ nextId' = nextId + s.inserted
               /\ metric' = metric + s.inc
               /\ call' = [op |-> "save", cmd |-> cmd, err |-> s.err,
                           result |-> IF s.err = NoErr THEN s.dash ELSE NoRow,
                           existing |-> s.existing,
                           parentVersion |-> s.parentVersion,
                           inserted |-> s.inserted,
                           written |-> Len(s.log),
                           metricPre |-> metric,
                           pre |-> db]
    /\ UNCHANGED <<sess, family>>

DeleteDashboard ==
  \E cmd \in DeleteCmds(family), failAt \in 0..DeleteStmts :
    LET d == RunDelete(cmd, db, failAt)
    IN  /\ call.op = "none"
        /\ db' = InTransaction(db, d.log, d.err)
        /\ call' = [op |-> "delete", cmd |-> cmd, err |-> d.err,
                    hookFailed |-> (failAt = DeleteStmts
                                      /\ d.err # ErrDashboardNotFound),
                    written |-> Len(d.log),
                    pre |-> db]
        /\ UNCHANGED <<nextId, metric, sess, family>>

\* The caller takes the result of its call; the next call may start.
TakeResult ==
  /\ call.op # "none"
  /\ call' = [op |-> "none"]
  /\ UNCHANGED <<db, nextId, metric, sess, family>>

\* An access-control row is added for an existing dashboard (the ACL
\* handlers write dashboard_acl; SaveDashboard only reads it).
AddDashboardAcl ==
  \E r \in db.dashboard :
    /\ family = "folder"
    /\ call.op = "none"
    /\ r.id \notin db.dashboard_acl
    /\ db' = [db EXCEPT !.dashboard_acl = @ \cup {r.id}]
    /\ UNCHANGED <<nextId, metric, call, sess, family>>

Next == SaveDashboard \/ DeleteDashboard \/ TakeResult \/ AddDashboardAcl

Spec == Init /\ [][Next]_vars

\* ------------------------------------------ stars, playlists and deletes
\* A user stars an existing dashboard (the star handlers write the star
\* table; DeleteDashboard deletes from it).
StarDashboard ==
  \E r \in db.dashboard : \E u \in Users :
    /\ call.op = "none"
    /\ [userId |-> u, dashboardId |-> r.id] \notin db.star
    /\ db' = [db EXCEPT !.star = @ \cup {[userId |-> u, dashboardId |-> r.id]}]
    /\ UNCHANGED <<nextId, metric, call, sess, family>>

\* An existing dashboard is put on a playlist by its id.
AddPlaylistItem ==
  \E r \in db.dashboard :
    /\ call.op = "none"
    /\ [type |-> "dashboard_by_id", value |-> r.id] \notin db.playlist_item
    /\ db' = [db EXCEPT !.playlist_item =
                 @ \cup {[type |-> "dashboard_by_id", value |-> r.id]}]
    /\ UNCHANGED <<nextId, metric, call, sess, family>>

NextDelete ==
  SaveDashboard \/ DeleteDashboard \/ TakeResult \/ StarDashboard \/ AddPlaylistItem

InitDelete ==
  /\ db = EmptyDb
  /\ nextId = 1
  /\ metric = 0
  /\ call = [op |-> "none"]
  /\ sess = [p \in Procs |-> Idle]
  /\ family = "delete"

SpecDelete == InitDelete /\ [][NextDelete]_vars

\* ------------------------------------------------------- concurrent saves
\* Each caller runs SaveDashboard in its own transaction, one statement per
\* step.  Statements see the committed tables; the writes of a transaction
\* reach them at its commit.
Active(p) == sess[p].s.pc \notin {"idle", "done"}

\* The callback is at a point where it executes no statement.
Silent(s) ==
  \/ s.pc = "lookup" /\ ~(s.dash.id > 0)
  \/ s.pc = "parentAcl" /\ ~(s.dash.folderId > 0)
  \/ s.pc = "ownAcl" /\ ~(s.dash.id > 0)
  \/ s.pc = "insTag" /\ s.tagIdx > Len(s.cmd.tags)

\* The callback runs on to its next statement or to its return.
RECURSIVE ToStatement(_)
ToStatement(s) ==
  IF Silent(s) THEN ToStatement(SaveStep(s, db, nextId, NoRow, NoRow)) ELSE s

\* The row lock of an UPDATE: another transaction has updated row id and has
\* not ended.
RowLocked(id, p) ==
  \E q \in Procs \ {p} :
    /\ Active(q)
    /\ \E i \in DOMAIN sess[q].s.log :
         sess[q].s.log[i].op = "updDash" /\ sess[q].s.log[i].id = id

\* Inserts the other callers in flight may still make.
PendingInserts(p) ==
  Cardinality({q \in Procs \ {p} :
                 Active(q) /\ sess[q].s.cmd.id = 0 /\ sess[q].s.inserted = 0})

\* line 27: inTransaction begins the transaction and calls the callback
BeginSave(p) ==
  /\ ~Active(p)
  /\ \E cmd \in SaveCmds(family) :
       /\ SaveAllowed(cmd, PendingInserts(p))
       /\ sess' = [sess EXCEPT
                     ![p] = [s |-> ToStatement(NewSession(cmd, 0)), pre |-> db]]
  /\ UNCHANGED <<db, nextId, metric, call, family>>

\* one statement of the callback
Statement(p) ==
  LET s == sess[p].s
  IN  /\ Active(p)
      /\ s.pc # "return"
      /\ (s.pc = "write" /\ s.dash.id > 0) => ~RowLocked(s.dash.id, p)
      /\ \E sameTitle \in SameTitlePicks(db, s.dash),
            parent \in ParentPicks(db, s.dash) :
           LET s1 == SaveStep(s, db, nextId, sameTitle, parent)
           IN  /\ nextId' = nextId + (s1.inserted - s.inserted)
               /\ metric' = metric + (s1.inc - s.inc)
               /\ sess' = [sess EXCEPT ![p].s = ToStatement(s1)]
      /\ UNCHANGED <<db, call, family>>

\* lines 136-137: the callback returns; inTransaction commits or rolls back
EndSave(p) ==
  LET s == sess[p].s
  IN  /\ s.pc = "return"
      /\ db' = InTransaction(db, s.log, s.err)
      /\ sess' = [sess EXCEPT ![p].s.pc = "done"]
      /\ UNCHANGED <<nextId, metric, call, family>>

NextConcurrent == \E p \in Procs : BeginSave(p) \/ Statement(p) \/ EndSave(p)

InitConcurrent ==
  /\ db = EmptyDb
  /\ nextId = 1
  /\ metric = 0
  /\ call = [op |-> "none"]
  /\ sess = [p \in Procs |-> Idle]
  /\ family = "concurrent"

SpecConcurrent == InitConcurrent /\ [][NextConcurrent]_vars

\* ------------------------------------------------- alert evaluator (conditions)
\* JSON values of an evaluator model: null, a string, or a number, which the
\* decoder keeps as the characters of its literal (json.Number).
Literals == {<<"0">>, <<"2">>, <<"-", "1">>, <<"1", "2">>}
TypeStrings == {"", "gt", "lt", "within_range", "outside_range", "eq"}
Values == -2..2

JsonNull == [kind |-> "null", str |-> "", num |-> << >>]
JsonString(s) == [kind |-> "string", str |-> s, num |-> << >>]
JsonNumber(lit) == [kind |-> "number", str |-> "", num |-> lit]

\* the values the "type" property can hold, and the elements of "params"
TypeValues == {JsonNull, JsonNumber(<<"2">>)} \cup {JsonString(s) : s \in TypeStrings}
ParamValues == {JsonNull, JsonString("x")} \cup {JsonNumber(l) : l \in Literals}

\* the "params" property: absent (not an array), or an array of 0..MaxParams
\* elements
MaxParams == 2
ParamArrays ==
  UNION {[1..n -> ParamValues] : n \in 0..MaxParams}
EvaluatorModels ==
  {m \in [type : TypeValues, isArray : BOOLEAN, params : ParamArrays] :
     ~m.isArray => m.params = << >>}

\* simplejson: MustString() is "" for a value that is no string, MustArray()
\* is empty for a value that is no array
MustString(v) == IF v.kind = "string" THEN v.str ELSE ""
MustArray(model) == IF model.isArray THEN model.params ELSE << >>

\* json.Number.Float64(): the value of the decimal literal
DigitValue == [c \in {"0", "1", "2"} |-> IF c = "0" THEN 0 ELSE IF c = "1" THEN 1 ELSE 2]
RECURSIVE Digits(_)
Digits(lit) ==
  IF lit = << >> THEN 0
  ELSE 10 * Digits(SubSeq(lit, 1, Len(lit) - 1)) + DigitValue[lit[Len(lit)]]
Float64(lit) ==
  IF Head(lit) = "-" THEN 0 - Digits(Tail(lit)) ELSE Digits(lit)

defaultTypes == <<"gt", "lt">>
rangedTypes == <<"within_range", "outside_range">>
inSlice(a, list) == \E i \in DOMAIN list : list[i] = a

\* what NewAlertEvaluator leaves its caller with: an evaluator, a
\* ValidationError, or a run-time panic
DefaultAlertEvaluator(typ, threshold) ==
  [kind |-> "DefaultAlertEvaluator", Type |-> typ, Threshold |-> threshold,
   Lower |-> 0, Upper |-> 0, Reason |-> ""]
RangedAlertEvaluator(typ, lower, upper) ==
  [kind |-> "RangedAlertEvaluator", Type |-> typ, Threshold |-> 0,
   Lower |-> lower, Upper |-> upper, Reason |-> ""]
ValidationError(reason) ==
  [kind |-> "ValidationError", Type |-> "", Threshold |-> 0,
   Lower |-> 0, Upper |-> 0, Reason |-> reason]
IndexOutOfRange ==
  [kind |-> "panic", Type |-> "", Threshold |-> 0,
   Lower |-> 0, Upper |-> 0, Reason |-> "index out of range"]

\* evaluator.go lines 25-34
DefaultAlertEvaluatorEval(e, reducedValue) ==
  CASE e.Type = "gt" -> reducedValue > e.Threshold
    [] e.Type = "lt" -> reducedValue < e.Threshold
    [] OTHER -> FALSE

\* (mutant) the bounds of the range belong to it
RangedAlertEvaluatorEvalInclusive(e, reducedValue) ==
  CASE e.Type = "within_range" ->
         \/ (e.Lower <= reducedValue /\ e.Upper >= reducedValue)
         \/ (e.Upper <= reducedValue /\ e.Lower >= reducedValue)
    [] e.Type = "outside_range" ->
         \/ (e.Upper < reducedValue /\ e.Lower < reducedValue)
         \/ (e.Upper > reducedValue /\ e.Lower > reducedValue)
    [] OTHER -> FALSE

\* evaluator.go lines 42-51
RangedAlertEvaluatorEval(e, reducedValue) ==
  CASE e.Type = "within_range" ->
         \/ (e.Lower < reducedValue /\ e.Upper > reducedValue)
         \/ (e.Upper < reducedValue /\ e.Lower > reducedValue)
    [] e.Type = "outside_range" ->
         \/ (e.Upper < reducedValue /\ e.Lower < reducedValue)
         \/ (e.Upper > reducedValue /\ e.Lower > reducedValue)
    [] OTHER -> FALSE

\* the method of the AlertEvaluator interface, by the evaluator's type
Eval(e, reducedValue) ==
  IF e.kind = "DefaultAlertEvaluator"
    THEN DefaultAlertEvaluatorEval(e, reducedValue)
    ELSE RangedAlertEvaluatorEval(e, reducedValue)

\* evaluator.go lines 53-88
NewAlertEvaluator(model) ==
  LET typ == MustString(model.type)
      params == MustArray(model)
  IN  IF typ = ""
        THEN ValidationError("Evaluator missing type property")
      ELSE IF Len(params) = 0
        THEN ValidationError("Evaluator missing threshold parameter")
      ELSE IF params[1].kind # "number"
        THEN ValidationError("Evaluator has invalid parameter")
      ELSE IF inSlice(typ, defaultTypes)
        THEN DefaultAlertEvaluator(typ, Float64(params[1].num))
      ELSE IF inSlice(typ, rangedTypes)
        THEN IF Len(params) < 2
               THEN IndexOutOfRange
             ELSE IF params[2].kind # "number"
               THEN ValidationError("Evaluator has invalid second parameter")
             ELSE RangedAlertEvaluator(typ, Float64(params[1].num),
                                       Float64(params[2].num))
      ELSE ValidationError("Evaludator invalid evaluator type")

\* the evaluators a caller can hold: the exported struct types with any
\* Type string and any bounds
Evaluators ==
  {DefaultAlertEvaluator(ty, th) : ty \in TypeStrings, th \in Values}
    \cup {RangedAlertEvaluator(ty, lo, up) :
            ty \in TypeStrings, lo \in Values, up \in Values}

CallNewAlertEvaluator ==
  \E model \in EvaluatorModels :
    /\ call.op = "none"
    /\ call' = [op |-> "NewAlertEvaluator", model |-> model,
                result |-> NewAlertEvaluator(model)]
    /\ UNCHANGED <<db, nextId, metric, sess, family>>

\* Eval on the evaluator NewAlertEvaluator returned, or on one the caller
\* built itself
CallEval ==
  \E reducedValue \in Values :
    \E e \in IF call.op = "NewAlertEvaluator"
               THEN {call.result} \ {IndexOutOfRange}
               ELSE Evaluators :
      /\ call.op \in {"none", "NewAlertEvaluator"}
      /\ e.kind # "ValidationError"
      /\ call' = [op |-> "Eval", e |-> e, reducedValue |-> reducedValue,
                  result |-> Eval(e, reducedValue)]
      /\ UNCHANGED <<db, nextId, metric, sess, family>>

NextEvaluator == CallNewAlertEvaluator \/ CallEval \/ TakeResult

InitEvaluator ==
  /\ db = EmptyDb
  /\ nextId = 1
  /\ metric = 0
  /\ call = [op |-> "none"]
  /\ sess = [p \in Procs |-> Idle]
  /\ family = "evaluator"

SpecEvaluator == InitEvaluator /\ [][NextEvaluator]_vars

\* --------------------------------------------------- search (findDashboards)
\* The tables the search reads.  Of a dashboard row it reads id, org_id,
\* folder_id and has_acl; of an ACL row the dashboard it is on and what it
\* grants: a user, a user group or an org role (the columns it does not use
\* hold 0 and "").
ROLE_ADMIN == "Admin"
Roles == {"Viewer", "Editor", ROLE_ADMIN}
UserGroups == {1}
MaxAclRows == 2

AclRow(d, u, g, role) ==
  [dashboardId |-> d, userId |-> u, userGroupId |-> g, role |-> role]
AclRows ==
  {AclRow(d, u, 0, "") : d \in 1..MaxId, u \in Users}
    \cup {AclRow(d, 0, g, "") : d \in 1..MaxId, g \in UserGroups}
    \cup {AclRow(d, 0, 0, role) : d \in 1..MaxId, role \in Roles \ {ROLE_ADMIN}}

\* Dashboard 1 is a folder of org 1 and dashboard 2 is in it.
SearchDashboardRows(hasAcl) ==
  {[NoRow EXCEPT !.id = 1, !.orgId = 1, !.slug = "x", !.version = 1,
                 !.dataVersion = 1, !.hasAcl = hasAcl[1]],
   [NoRow EXCEPT !.id = 2, !.orgId = 1, !.slug = "y", !.version = 1,
                 !.dataVersion = 1, !.folderId = 1, !.hasAcl = hasAcl[2]]}

\* Every user is a member of org 1 with one role.
OrgUserRows(roleOf) ==
  {[id |-> u, orgId |-> 1, userId |-> u, role |-> roleOf[u]] : u \in Users}

SearchTables ==
  {[dashboard |-> SearchDashboardRows(hasAcl),
    dashboard_acl |-> acl,
    user_group_member |-> ugm,
    org_user |-> OrgUserRows(roleOf)] :
     hasAcl \in [1..2 -> BOOLEAN],
     acl \in {a \in SUBSET AclRows : Cardinality(a) <= MaxAclRows},
     ugm \in SUBSET [userGroupId : UserGroups, userId : Users],
     roleOf \in [Users -> Roles]}

\* FindPersistedDashboardsQuery with no tag, title, type, starred or id
\* filter: the signed-in user and the folder filter
Queries(d) ==
  {[SignedInUser |-> [UserId |-> ou.userId, OrgId |-> ou.orgId, OrgRole |-> ou.role],
    FolderId |-> f] : ou \in d.org_user, f \in 0..1}

\* lines 256-265: the ids selected by allowedDashboardsSubQuery.  The left
\* joins keep a row with nulls where nothing matches, and the WHERE clause
\* is false on nulls, so a dashboard is selected by an ACL row joined to it
\* that names the user, or a group with a member row of the user, or a role
\* that some org_user row has.
AllowedDashboards(d, query) ==
  {x.id : x \in
     {r \in d.dashboard :
        /\ r.hasAcl
        /\ r.orgId = query.SignedInUser.OrgId
        /\ \E da \in d.dashboard_acl :
             /\ r.folderId = da.dashboardId \/ r.id = da.dashboardId
             /\ \/ da.userId = query.SignedInUser.UserId
                \/ \E ugm \in d.user_group_member :
                     /\ ugm.userGroupId = da.userGroupId
                     /\ ugm.userId = query.SignedInUser.UserId
                \/ \E ou \in d.org_user : ou.role = da.role}}

\* lines 239-287: the WHERE clause of the search, and the ids of its hits
findDashboards(d, query) ==
  {x.id : x \in
     {r \in d.dashboard :
        /\ r.orgId = query.SignedInUser.OrgId
        /\ query.SignedInUser.OrgRole # ROLE_ADMIN
             => (~r.hasAcl \/ r.id \in AllowedDashboards(d, query))
        /\ query.FolderId > 0 => r.folderId = query.FolderId}}

SearchDashboards ==
  \E query \in Queries(db) :
    /\ call.op = "none"
    /\ call' = [op |-> "search", query |-> query,
                result |-> findDashboards(db, query)]
    /\ UNCHANGED <<db, nextId, metric, sess, family>>

NextSearch == SearchDashboards \/ TakeResult

InitSearch ==
  /\ db \in SearchTables
  /\ nextId = 1
  /\ metric = 0
  /\ call = [op |-> "none"]
  /\ sess = [p \in Procs |-> Idle]
  /\ family = "search"

SpecSearch == InitSearch /\ [][NextSearch]_vars

\* ================================================================ claims
Range(seq) == {seq[i] : i \in DOMAIN seq}
SaveReturned == call.op = "save"
SaveOk == call.op = "save" /\ call.err = NoErr
Ids(d) == {r.id : r \in d.dashboard}
VersionOf(d, id) ==
  IF \E r \in d.dashboard : r.id = id
    THEN (CHOOSE r \in d.dashboard : r.id = id).version
    ELSE 0
TagsOf(d, id) ==
  {t.term : t \in {x \in BagToSet(d.dashboard_tag) : x.dashboardId = id}}
\* The row the call addresses by (id, orgId), in the tables before the call.
Addressed(c) ==
  {r \in c.pre.dashboard : r.id = c.cmd.id /\ r.orgId = c.cmd.orgId}
\* The rows that own the candidate's slug in its org before the call.
SlugOwners(c) == SameTitleRows(c.pre, GetDashboardModel(c.cmd))

HistoryCount(d, id) ==
  BagCardinality(d.dashboard_version)
    - BagCardinality(DeleteByDashboardId(d.dashboard_version, id))

\* Callers p and q have both returned from saves of the same existing
\* dashboard, both without overwrite, both declaring the version V that was
\* stored when each of them began, with the slug free of other owners.
SameVersionSaves(p, q, r) ==
  /\ sess[p].s.pc = "done" /\ sess[q].s.pc = "done"
  /\ sess[p].s.cmd.id = r.id /\ sess[q].s.cmd.id = r.id
  /\ ~sess[p].s.cmd.overwrite /\ ~sess[q].s.cmd.overwrite
  /\ sess[p].s.cmd.version = r.version /\ sess[q].s.cmd.version = r.version
  /\ r \in sess[q].pre.dashboard
  /\ \A o \in sess[p].pre.dashboard \cup sess[q].pre.dashboard :
       o.slug = r.slug => o.id = r.id

\* C1: of two concurrent saves of one dashboard that both declare the
\* stored version V, exactly one succeeds, the other fails with the
\* version-mismatch or the not-found error, and the dashboard ends at
\* version V + 1 with exactly one new version-history row.
C1_OneWinner ==
  \A p \in Procs : \A q \in Procs \ {p} :
    \A r \in sess[p].pre.dashboard :
      SameVersionSaves(p, q, r) =>
        /\ \/ /\ sess[p].s.err = NoErr
              /\ sess[q].s.err \in {ErrDashboardVersionMismatch, ErrDashboardNotFound}
           \/ /\ sess[q].s.err = NoErr
              /\ sess[p].s.err \in {ErrDashboardVersionMismatch, ErrDashboardNotFound}
        /\ VersionOf(db, r.id) = r.version + 1
        /\ HistoryCount(db, r.id) = HistoryCount(sess[p].pre, r.id) + 1

\* C2: a save that returns an error leaves the dashboard, version-history
\* and tag tables exactly as they were before the call, also when the
\* failure comes after rows were already written in the transaction.
C2_AllOrNothing ==
  (SaveReturned /\ call.err # NoErr) => db = call.pre

\* a store failure at a tag insert, after the canonical row, the history
\* row and the tag delete were written
C2_Witness ==
  SaveReturned /\ call.err = DbError /\ call.written >= 3

\* C3: a successful save raises the stored version of the saved id by
\* exactly 1 (a new id starts from no version) and adds exactly one
\* version-history row, for that id, whose version is the new stored version.
C3_VersionStep ==
  SaveOk =>
    LET id == call.result.id
        added == db.dashboard_version (-) call.pre.dashboard_version
    IN  /\ VersionOf(db, id) = VersionOf(call.pre, id) + 1
        /\ call.pre.dashboard_version \sqsubseteq db.dashboard_version
        /\ BagCardinality(added) = 1
        /\ \A v \in BagToSet(added) :
             v.dashboardId = id /\ v.version = VersionOf(db, id)

\* a second successful save of an id: version 1 -> 2
C3_Witness ==
  SaveOk /\ call.inserted = 0 /\ VersionOf(call.pre, call.result.id) = 1
         /\ VersionOf(db, call.result.id) = 2

\* C4: a new dashboard (id 0, slug free) is stored with version 1 and gets a
\* history row with version 1 and parentVersion 0, whatever version its
\* body declares.
C4_NewDashboardVersion ==
  (SaveOk /\ call.cmd.id = 0 /\ SlugOwners(call) = {}) =>
    /\ VersionOf(db, call.result.id) = 1
    /\ \E v \in BagToSet(db.dashboard_version) :
         v.dashboardId = call.result.id /\ v.version = 1 /\ v.parentVersion = 0

\* C5: a save of an existing dashboard that declares a version other than
\* the stored one, without overwrite, fails with the version-mismatch error
\* (unless the store fails the lookup) and changes nothing.
C5_VersionConflict ==
  SaveReturned =>
    \A r \in Addressed(call) :
      (call.cmd.version # r.version /\ ~call.cmd.overwrite) =>
        /\ call.err \in {ErrDashboardVersionMismatch, DbError}
        /\ db = call.pre

C5_Witness ==
  /\ SaveReturned
  /\ call.err = ErrDashboardVersionMismatch
  /\ \E r \in Addressed(call) : call.cmd.version # r.version
  /\ ~call.cmd.overwrite

\* C6 as stated: a save of an existing plugin dashboard (pluginId X) fails
\* with the plugin error carrying X whenever overwrite is false, for every
\* declared version, and succeeds whenever overwrite is true.
C6_Original ==
  SaveReturned =>
    \A r \in Addressed(call) :
      (r.pluginId # "" /\ call.err # DbError) =>
        IF ~call.cmd.overwrite
          THEN call.err = UpdatePluginDashboardError(r.pluginId)
          ELSE call.err = NoErr

\* C6 amended: without overwrite the plugin error is returned when the
\* declared version equals the stored one, and the version-mismatch error
\* when it differs; with overwrite the save succeeds.
C6_PluginGuard ==
  SaveReturned =>
    \A r \in Addressed(call) :
      (r.pluginId # "" /\ call.err # DbError) =>
        IF ~call.cmd.overwrite
          THEN IF call.cmd.version = r.version
                 THEN call.err = UpdatePluginDashboardError(r.pluginId)
                 ELSE call.err = ErrDashboardVersionMismatch
          ELSE call.err = NoErr

C6_Witness ==
  /\ SaveReturned
  /\ \E r \in Addressed(call) : r.pluginId = "X"
  /\ ~call.cmd.overwrite
  /\ call.err = UpdatePluginDashboardError("X")

\* C7: a new dashboard (id 0) whose slug is owned by a row of the same org
\* fails with the same-name error without overwrite; with overwrite it takes
\* that row's id and version, updates it in place to version + 1, adds no
\* row, and exactly one row of the org has the slug afterwards.
C7_SlugCollision ==
  (SaveReturned /\ call.cmd.id = 0 /\ call.err # DbError) =>
    \A r \in SlugOwners(call) :
      IF ~call.cmd.overwrite
        THEN call.err = ErrDashboardWithSameNameExists
        ELSE /\ call.err = NoErr
             /\ call.result.id = r.id
             /\ call.parentVersion = r.version
             /\ VersionOf(db, r.id) = r.version + 1
             /\ Ids(db) = Ids(call.pre)
             /\ Cardinality(SameTitleRows(db, GetDashboardModel(call.cmd))) = 1

C7_Witness ==
  /\ SaveOk
  /\ call.cmd.id = 0 /\ call.cmd.overwrite
  /\ SlugOwners(call) # {}
  /\ call.inserted = 0

\* C8: after a successful delete of a folder D that has children, no row,
\* tag row or version-history row of D or of a child remains.
C8_FolderCascade ==
  (call.op = "delete" /\ call.err = NoErr) =>
    LET kids == {r.id : r \in {x \in call.pre.dashboard :
                                  x.folderId = call.cmd.id}}
        gone == {call.cmd.id} \cup kids
    IN  /\ Ids(db) \cap gone = {}
        /\ \A t \in BagToSet(db.dashboard_tag) : t.dashboardId \notin gone
        /\ \A v \in BagToSet(db.dashboard_version) : v.dashboardId \notin gone

\* C9: after a successful save the tag rows of the saved id are exactly the
\* tags of the saved body.
C9_TagsReplaced ==
  SaveOk => TagsOf(db, call.result.id) = Range(call.cmd.tags)

\* {a, b} resaved as {b, c}
C9_Witness ==
  /\ SaveOk
  /\ TagsOf(call.pre, call.result.id) = {"a", "b"}
  /\ call.cmd.tags = <<"b", "c">>

\* C10: a successful save stores hasAcl = TRUE whenever the row whose id is
\* the candidate's folderId has hasAcl = TRUE, or an ACL row references the
\* saved dashboard's id.
C10_HasAclDerived ==
  SaveOk =>
    LET id == call.result.id
        parentHasAcl ==
          \E f \in call.pre.dashboard : f.id = call.cmd.folderId /\ f.hasAcl
        ownAcl == id \in call.pre.dashboard_acl
    IN  (parentHasAcl \/ ownAcl) =>
          \A r \in db.dashboard : r.id = id => r.hasAcl

\* C12: in every state reached by saves made one after another, each
\* canonical row's version column equals the version embedded in its body,
\* and each version-history row's body carries that history row's version.
C12_BodyVersionMirror ==
  /\ \A r \in db.dashboard : r.dataVersion = r.version
  /\ \A v \in BagToSet(db.dashboard_version) : v.dataVersion = v.version

\* an overwrite save whose body declared a version other than the stored one
C12_Witness ==
  /\ SaveOk
  /\ call.cmd.id > 0 /\ call.cmd.overwrite
  /\ call.cmd.version # VersionOf(call.pre, call.cmd.id)
  /\ \E r \in db.dashboard : r.id = call.result.id /\ r.dataVersion = 2

\* C13: in every state reached by saves and deletes made one after another,
\* no two version-history rows share (dashboardId, version), and for every
\* stored dashboard the highest version among its history rows is the
\* canonical row's version.
C13_HistoryVersions ==
  /\ \A v \in BagToSet(db.dashboard_version) :
       /\ CopiesIn(v, db.dashboard_version) = 1
       /\ \A w \in BagToSet(db.dashboard_version) :
            (w.dashboardId = v.dashboardId /\ w.version = v.version) => w = v
  /\ \A r \in db.dashboard :
       LET hv == {v.version : v \in {x \in BagToSet(db.dashboard_version) :
                                       x.dashboardId = r.id}}
       IN  r.version \in hv /\ \A x \in hv : x <= r.version

\* a dashboard saved twice after an earlier dashboard was deleted
C13_Witness ==
  /\ SaveOk
  /\ HistoryCount(db, call.result.id) = 2
  /\ Cardinality(db.dashboard) < nextId - 1

\* C14: in every state reached by saves and deletes made one after another,
\* with or without overwrite, no two canonical rows of one org have the same
\* slug.
C14_SlugUnique ==
  \A r \in db.dashboard : \A q \in db.dashboard :
    (r.orgId = q.orgId /\ r.slug = q.slug) => r = q

\* an existing dashboard is renamed to a slug another row of its org owns
C14_Witness ==
  /\ SaveReturned
  /\ call.cmd.id > 0
  /\ call.err = ErrDashboardWithSameNameExists
  /\ \E r \in SlugOwners(call) : r.id # call.cmd.id

\* C16: the dashboard-insert counter rises by one in a call that inserts a
\* new dashboard successfully and is left alone by every other call: a
\* save that fails, at the insert or later, and a save that updates.
C16_MetricCountsInserts ==
  SaveReturned =>
    metric = call.metricPre
               + (IF call.err = NoErr /\ call.inserted = 1 THEN 1 ELSE 0)

\* C17: the history row added by a successful save on the update branch has
\* parentVersion equal to the version the targeted row had before the save
\* and version = parentVersion + 1.
C17_ParentVersion ==
  (SaveOk /\ call.inserted = 0) =>
    LET id == call.result.id
        added == db.dashboard_version (-) call.pre.dashboard_version
    IN  /\ BagToSet(added) # {}
        /\ \A v \in BagToSet(added) :
             /\ v.dashboardId = id
             /\ v.parentVersion = VersionOf(call.pre, id)
             /\ v.version = v.parentVersion + 1

\* an overwrite save of an existing id that declares a stale version
C17_Witness ==
  /\ SaveOk
  /\ call.inserted = 0
  /\ call.cmd.overwrite
  /\ call.result.id = call.cmd.id
  /\ call.cmd.version # VersionOf(call.pre, call.cmd.id)
  /\ call.parentVersion = VersionOf(call.pre, call.cmd.id)

\* C18: a successful save keeps every earlier version-history row and leaves
\* the canonical, history and tag rows of every id other than the one it
\* returns as they were.
C18_SaveFrame ==
  SaveOk =>
    LET id == call.result.id
    IN  /\ call.pre.dashboard_version \sqsubseteq db.dashboard_version
        /\ {r \in db.dashboard : r.id # id}
             = {r \in call.pre.dashboard : r.id # id}
        /\ DeleteByDashboardId(db.dashboard_version, id)
             = DeleteByDashboardId(call.pre.dashboard_version, id)
        /\ DeleteByDashboardId(db.dashboard_tag, id)
             = DeleteByDashboardId(call.pre.dashboard_tag, id)

\* an overwrite save of a tagged dashboard is redirected to the row that
\* owns the slug
C18_Witness ==
  /\ SaveOk
  /\ call.cmd.id > 0
  /\ call.result.id # call.cmd.id
  /\ TagsOf(call.pre, call.cmd.id) # {}

\* C15: a delete whose alert-definition hook fails returns success and
\* commits: the row, its tag, star, playlist and history rows are gone and the
\* tables are exactly those a delete with a succeeding hook leaves.  A
\* delete of an (id, orgId) that matches no row fails with the not-found
\* error (or the store's own error) and removes nothing.
C15_HookSwallowed ==
  call.op = "delete" =>
    /\ call.hookFailed =>
         /\ call.err = NoErr
         /\ call.cmd.id \notin Ids(db)
         /\ TagsOf(db, call.cmd.id) = {}
         /\ \A x \in db.star : x.dashboardId # call.cmd.id
         /\ \A x \in db.playlist_item : x.value # call.cmd.id
         /\ HistoryCount(db, call.cmd.id) = 0
         /\ db = ApplyLog(call.pre, RunDelete(call.cmd, call.pre, 0).log)
    /\ Addressed(call) = {} =>
         /\ call.err \in {ErrDashboardNotFound, DbError}
         /\ db = call.pre

\* the hook fails in the delete of a tagged, starred dashboard that is on a
\* playlist, while another dashboard is stored
C15_Witness ==
  /\ call.op = "delete"
  /\ call.hookFailed
  /\ TagsOf(call.pre, call.cmd.id) # {}
  /\ \E x \in call.pre.star : x.dashboardId = call.cmd.id
  /\ \E x \in call.pre.playlist_item : x.value = call.cmd.id
  /\ HistoryCount(call.pre, call.cmd.id) > 0
  /\ db.dashboard # {}

Min(a, b) == IF a < b THEN a ELSE b
Max(a, b) == IF a < b THEN b ELSE a
Swapped(e) == [e EXCEPT !.Lower = e.Upper, !.Upper = e.Lower]

\* C19: the ranged evaluator's within_range is true exactly when the value
\* lies strictly between the two bounds, its outside_range exactly when the
\* value is strictly below both or strictly above both; swapping Lower and
\* Upper changes neither, the two are never true together, and both are
\* false at a bound.  The default evaluator's gt is v > Threshold, its lt is
\* v < Threshold; every other type string yields false.
C19_EvalComparisons ==
  call.op = "Eval" =>
    LET e == call.e
        v == call.reducedValue
        lo == Min(e.Lower, e.Upper)
        hi == Max(e.Lower, e.Upper)
        within == RangedAlertEvaluatorEval([e EXCEPT !.Type = "within_range"], v)
        outside == RangedAlertEvaluatorEval([e EXCEPT !.Type = "outside_range"], v)
    IN  IF e.kind = "RangedAlertEvaluator"
          THEN /\ e.Type = "within_range" => (call.result <=> (lo < v /\ v < hi))
               /\ e.Type = "outside_range" => (call.result <=> (v < lo \/ v > hi))
               /\ e.Type \notin {"within_range", "outside_range"} => ~call.result
               /\ call.result = RangedAlertEvaluatorEval(Swapped(e), v)
               /\ ~(within /\ outside)
               /\ v \in {e.Lower, e.Upper} => (~within /\ ~outside)
          ELSE /\ e.Type = "gt" => (call.result <=> v > e.Threshold)
               /\ e.Type = "lt" => (call.result <=> v < e.Threshold)
               /\ e.Type \notin {"gt", "lt"} => ~call.result

\* within_range holds for a value between bounds given upper first
C19_Witness ==
  /\ call.op = "Eval"
  /\ call.e.kind = "RangedAlertEvaluator"
  /\ call.e.Type = "within_range"
  /\ call.e.Lower > call.e.Upper
  /\ call.result

\* the value each number literal of the models stands for
LiteralValue(lit) ==
  CASE lit = <<"0">> -> 0
    [] lit = <<"2">> -> 2
    [] lit = <<"-", "1">> -> -1
    [] lit = <<"1", "2">> -> 12

\* C20: NewAlertEvaluator returns an evaluator or a ValidationError for every
\* model and never aborts: a ValidationError when the type is missing,
\* params is empty, a required parameter is not a number (a ranged type
\* with one parameter included) or the type is none of the four; otherwise
\* a default evaluator with Threshold = first parameter, or a ranged
\* evaluator with Lower, Upper = first, second parameter.
C20_NewAlertEvaluatorTotal ==
  call.op = "NewAlertEvaluator" =>
    LET typ == MustString(call.model.type)
        params == MustArray(call.model)
        isNumber(i) == i <= Len(params) /\ params[i].kind = "number"
        ranged == typ \in {"within_range", "outside_range"}
        invalid ==
          \/ typ \notin {"gt", "lt", "within_range", "outside_range"}
          \/ ~isNumber(1)
          \/ ranged /\ ~isNumber(2)
        r == call.result
    IN  /\ r.kind \in {"DefaultAlertEvaluator", "RangedAlertEvaluator",
                       "ValidationError"}
        /\ invalid <=> r.kind = "ValidationError"
        /\ (~invalid /\ ~ranged) =>
             r = DefaultAlertEvaluator(typ, LiteralValue(params[1].num))
        /\ (~invalid /\ ranged) =>
             r = RangedAlertEvaluator(typ, LiteralValue(params[1].num),
                                      LiteralValue(params[2].num))

\* C11: every dashboard a search returns to a signed-in user who is not an
\* administrator has hasAcl = false or is covered by an ACL row, on the
\* dashboard or on its folder, that grants access to that user, to a group
\* the user is a member of, or to the user's own org role.
C11_SearchAcl ==
  (call.op = "search" /\ call.query.SignedInUser.OrgRole # ROLE_ADMIN) =>
    \A r \in db.dashboard :
      r.id \in call.result =>
        \/ ~r.hasAcl
        \/ \E da \in db.dashboard_acl :
             /\ da.dashboardId = r.id \/ da.dashboardId = r.folderId
             /\ \/ da.userId = call.query.SignedInUser.UserId
                \/ \E ugm \in db.user_group_member :
                     /\ ugm.userGroupId = da.userGroupId
                     /\ ugm.userId = call.query.SignedInUser.UserId
                \/ da.role = call.query.SignedInUser.OrgRole

====
